---- MODULE Spec2Model ----
(***************************************************************************)
(* A model of the tree pipeline of embeddings-for-trees:                   *)
(*   - JsonlDataset.__getitem__ (src/data_module/jsonl_dataset.py): reads  *)
(*     one line of the data file, parses it, walks the AST nodes in        *)
(*     document order and builds the child->parent graph;                  *)
(*   - the Tree-LSTM cells (src/model/treeLSTM_cell.py): matrix lookup,    *)
(*     state initialisation and frontier-by-frontier propagation;          *)
(*   - the batched graph handed to Tree2Seq.forward                        *)
(*     (src/model/tree2seq.py).                                            *)
(* Strings are sequences of symbols; canonical indices are 0-based as in   *)
(* the source; Python's None is the empty tuple and a present value v is   *)
(* the 1-tuple <<v>>.                                                      *)
(***************************************************************************)
EXTENDS Integers, Sequences, FiniteSets, TLC

VARIABLES data_file, line_offsets, config, log_file, returned,
          cell, batch, embedded_graph, run, applied, outputs

vars == <<data_file, line_offsets, config, log_file, returned,
          cell, batch, embedded_graph, run, applied, outputs>>

(***************************************************************************)
(* Bounds of the model.                                                    *)
(***************************************************************************)
MaxAst == 3
MaxTokenParts == 2
MaxTreeNodes == 3
MaxTreeDepth == 2
MaxLabelParts == 2
NLines == 2
MaxNodes == 4
MaxBatch == 2
MaxPasses == 2
Modulus == 7

(***************************************************************************)
(* Python values.                                                          *)
(***************************************************************************)
None == <<>>
Some(v) == <<v>>
Val(o) == o[1]

Min(a, b) == IF a < b THEN a ELSE b

SetMax(S) == CHOOSE y \in S : \A z \in S : z <= y

Range(s) == {s[i] : i \in 1..Len(s)}

\* seq[:n] for n >= 0
Take(s, n) == SubSeq(s, 1, Min(n, Len(s)))

(***************************************************************************)
(* utils.common names used by the dataset.                                 *)
(***************************************************************************)
SEPARATOR == "|"
EMPTY_TOKEN == <<"<EMPTY>">>
UNK == <<"<UNK>">>
PAD == <<"<PAD>">>

\* str.split(SEPARATOR): always at least one piece; adjacent separators and
\* separators at the ends give empty pieces.
RECURSIVE Split(_)
Split(s) ==
  IF s = <<>> THEN << <<>> >>
  ELSE LET rest == Split(Tail(s)) IN
       IF Head(s) = SEPARATOR THEN << <<>> >> \o rest
       ELSE << <<Head(s)>> \o Head(rest) >> \o Tail(rest)

\* str.strip() on the symbols of a line: blanks at both ends go.
RECURSIVE LStrip(_)
LStrip(s) == IF s # <<>> /\ Head(s) = " " THEN LStrip(Tail(s)) ELSE s

RECURSIVE RStrip(_)
RStrip(s) ==
  IF s # <<>> /\ s[Len(s)] = " " THEN RStrip(SubSeq(s, 1, Len(s) - 1)) ELSE s

Strip(s) == RStrip(LStrip(s))

(***************************************************************************)
(* The vocabulary (an external collaborator): dict.get(key, unk).          *)
(***************************************************************************)
token_to_id ==
  (UNK :> 0) @@ (PAD :> 1) @@ (EMPTY_TOKEN :> 2) @@ (<<"a">> :> 3) @@ (<<"b">> :> 4)

node_to_id == (UNK :> 0) @@ (<<"Block">> :> 1) @@ (<<"Name">> :> 2)

label_to_id == (UNK :> 0) @@ (PAD :> 1) @@ (<<"get">> :> 2) @@ (<<"name">> :> 3)

DictGetOr(d, k, default) == IF k \in DOMAIN d THEN d[k] ELSE default

\* dict.get(k, None)
DictGet(d, k) == IF k \in DOMAIN d THEN Some(d[k]) ELSE None

(***************************************************************************)
(* JsonlDataset.__init__ and _read_line: the byte offset of every line,    *)
(* and the line found at an offset, stripped.  A line is its text and what *)
(* json.loads makes of it: None for a JSONDecodeError, else the sample.    *)
(***************************************************************************)
LineLen(line) == Len(line.text) + 1

RECURSIVE LineOffsets(_)
LineOffsets(file) ==
  IF file = <<>> THEN <<>>
  ELSE LET before == LineOffsets(SubSeq(file, 1, Len(file) - 1)) IN
       IF before = <<>> THEN <<0>>
       ELSE Append(before, before[Len(before)] + LineLen(file[Len(file) - 1]))

\* data_file.seek(offset); data_file.readline().strip()
ReadLine(file, offsets, index) ==
  LET all == LineOffsets(file)
      k == CHOOSE i \in 1..Len(file) : all[i] = offsets[index + 1]
  IN [text |-> Strip(file[k].text), json |-> file[k].json]

(***************************************************************************)
(* __getitem__, label conversion (lines 66-70).                            *)
(***************************************************************************)
ConvertLabel(cfg, label) ==
  LET sublabels == Take(Split(label), cfg.max_label_parts) IN
  [i \in 1..cfg.max_label_parts |->
     IF i <= Len(sublabels) THEN DictGetOr(label_to_id, sublabels[i], label_to_id[UNK])
     ELSE label_to_id[PAD]]

(***************************************************************************)
(* __getitem__, the walk over the AST nodes (lines 73-88).  The builder    *)
(* state is the dict node_to_parent, the list nodes of                     *)
(* (subtoken, node, parent) and the exception raised, if any.              *)
(***************************************************************************)
IsInternal(node) == "children" \in DOMAIN node

\* a registration that names the node after the declaring one as the parent
RegisterChildrenNext(node_to_parent, children, index) ==
  [c \in DOMAIN node_to_parent \cup Range(children) |->
     IF c \in Range(children) THEN index + 1 ELSE node_to_parent[c]]

\* for c in node[CHILDREN]: node_to_parent[c] = len(nodes)
RegisterChildren(node_to_parent, children, index) ==
  [c \in DOMAIN node_to_parent \cup Range(children) |->
     IF c \in Range(children) THEN index ELSE node_to_parent[c]]

\* a builder that keeps every piece of a token
SubtokensUncapped(cfg, token) == Split(token)

\* node[TOKEN].split(SEPARATOR)[: max_token_parts]
Subtokens(cfg, token) == Take(Split(token), cfg.max_token_parts)

\* a builder that emits the pieces of a token last piece first
LeafNodesReversed(subtokens, type, parent_id) ==
  [i \in 1..Len(subtokens) |-> <<subtokens[Len(subtokens) + 1 - i], type, parent_id>>]

\* [(st, node[NODE], parent_id) for st in subtokens]
LeafNodes(subtokens, type, parent_id) ==
  [i \in 1..Len(subtokens) |-> <<subtokens[i], type, parent_id>>]

\* a builder without the assertion on the token of an internal node
VisitInternalUnchecked(n_id, node, st) ==
  LET ntp == RegisterChildren(st.node_to_parent, node.children, Len(st.nodes))
      parent_id == DictGet(ntp, n_id)
  IN [st EXCEPT !.node_to_parent = ntp,
                !.nodes = Append(st.nodes, <<node.token, node.node, parent_id>>)]

VisitInternal(n_id, node, st) ==
  IF node.token # EMPTY_TOKEN
  THEN [st EXCEPT !.exc = "AssertionError"]
  ELSE LET ntp == RegisterChildren(st.node_to_parent, node.children, Len(st.nodes))
           parent_id == DictGet(ntp, n_id)
       IN [st EXCEPT !.node_to_parent = ntp,
                     !.nodes = Append(st.nodes, <<node.token, node.node, parent_id>>)]

VisitLeaf(cfg, n_id, node, st) ==
  IF n_id \notin DOMAIN st.node_to_parent
  THEN [st EXCEPT !.exc = "KeyError"]
  ELSE LET subtokens == Subtokens(cfg, node.token)
           parent_id == Some(st.node_to_parent[n_id])
       IN [st EXCEPT !.nodes = st.nodes \o LeafNodes(subtokens, node.node, parent_id)]

VisitNode(cfg, n_id, node, st) ==
  IF IsInternal(node) THEN VisitInternal(n_id, node, st)
  ELSE VisitLeaf(cfg, n_id, node, st)

\* for n_id, node in enumerate(ast), from n_id on
RECURSIVE IterateNodes(_, _, _, _)
IterateNodes(cfg, ast, n_id, st) ==
  IF n_id >= Len(ast) \/ st.exc # "" THEN st
  ELSE IterateNodes(cfg, ast, n_id + 1, VisitNode(cfg, n_id, ast[n_id + 1], st))

BuildNodes(cfg, ast) ==
  IterateNodes(cfg, ast, 0, [exc |-> "", node_to_parent |-> <<>>, nodes |-> <<>>])

(***************************************************************************)
(* __getitem__, conversion to a dgl graph (lines 91-92).  dgl.graph takes  *)
(* the number of nodes from the largest index that occurs in an edge.      *)
(***************************************************************************)
\* [(child, parent) for child, (_, _, parent) in enumerate(nodes) if parent is not None]
Edges(nodes) ==
  LET RECURSIVE Collect(_)
      Collect(k) ==
        IF k = 0 THEN <<>>
        ELSE IF nodes[k][3] = None THEN Collect(k - 1)
        ELSE Append(Collect(k - 1), <<k - 1, Val(nodes[k][3])>>)
  IN Collect(Len(nodes))

\* the canonical nodes without a parent
Parentless(nodes) == {i \in 0..(Len(nodes) - 1) : nodes[i + 1][3] = None}

DglGraph(edges) ==
  [num_nodes |-> SetMax({e[1] : e \in Range(edges)} \cup {e[2] : e \in Range(edges)}) + 1,
   edges |-> edges]

(***************************************************************************)
(* dgl.topological_nodes_generator: the frontiers of Kahn's algorithm over *)
(* the child->parent edges.  A node whose count of unprocessed children    *)
(* never reaches zero is in no frontier: dgl then raises ("loop detected   *)
(* in the given graph").                                                   *)
(***************************************************************************)
InEdges(graph, v) == {i \in 1..Len(graph.edges) : graph.edges[i][2] = v}

GraphNodes(graph) == 0..(graph.num_nodes - 1)

InitialDegrees(graph) == [v \in GraphNodes(graph) |-> Cardinality(InEdges(graph, v))]

\* the counts after the nodes of frontier have been processed
ProcessFrontier(graph, deg, frontier) ==
  [v \in GraphNodes(graph) |->
     deg[v] - Cardinality({i \in InEdges(graph, v) : graph.edges[i][1] \in frontier})]

\* a traversal that schedules a node as soon as one of its children is processed
RECURSIVE FrontiersFromEager(_, _, _)
FrontiersFromEager(graph, deg, frontier) ==
  IF frontier = {} THEN <<>>
  ELSE LET deg2 == ProcessFrontier(graph, deg, frontier)
           next == {v \in GraphNodes(graph) : deg[v] > 0 /\ deg2[v] < deg[v]}
       IN <<frontier>> \o FrontiersFromEager(graph, deg2, next)

RECURSIVE FrontiersFrom(_, _, _)
FrontiersFrom(graph, deg, frontier) ==
  IF frontier = {} THEN <<>>
  ELSE LET deg2 == ProcessFrontier(graph, deg, frontier)
           next == {v \in GraphNodes(graph) : deg[v] > 0 /\ deg2[v] = 0}
       IN <<frontier>> \o FrontiersFrom(graph, deg2, next)

\* a traversal that yields all the nodes as one frontier
TopologicalNodesGeneratorFlat(graph) ==
  [frontiers |-> <<GraphNodes(graph)>>, loop |-> FALSE]

TopologicalNodesGenerator(graph) ==
  LET deg == InitialDegrees(graph)
      frontiers == FrontiersFrom(graph, deg, {v \in GraphNodes(graph) : deg[v] = 0})
  IN [frontiers |-> frontiers,
      loop |-> UNION Range(frontiers) # GraphNodes(graph)]

(***************************************************************************)
(* _is_suitable_tree (lines 46-54): "True", "False", or the exception of   *)
(* the topological traversal.                                              *)
(***************************************************************************)
\* a filter that also rejects a tree of exactly max_tree_nodes nodes
IsSuitableTreeOffByOne(cfg, tree) ==
  IF cfg.max_tree_nodes # None /\ tree.num_nodes >= Val(cfg.max_tree_nodes) THEN "False"
  ELSE IF cfg.max_tree_depth = None THEN "True"
  ELSE LET topo == TopologicalNodesGenerator(tree) IN
       IF topo.loop THEN "DGLError"
       ELSE IF Len(topo.frontiers) > Val(cfg.max_tree_depth) THEN "False"
       ELSE "True"

IsSuitableTree(cfg, tree) ==
  IF cfg.max_tree_nodes # None /\ tree.num_nodes > Val(cfg.max_tree_nodes) THEN "False"
  ELSE IF cfg.max_tree_depth = None THEN "True"
  ELSE LET topo == TopologicalNodesGenerator(tree) IN
       IF topo.loop THEN "DGLError"
       ELSE IF Len(topo.frontiers) > Val(cfg.max_tree_depth) THEN "False"
       ELSE "True"

\* graph.ndata[TOKEN], graph.ndata[NODE] (lines 95-99)
NodeData(nodes) ==
  [TOKEN |-> [i \in 1..Len(nodes) |-> DictGetOr(token_to_id, nodes[i][1], token_to_id[UNK])],
   NODE |-> [i \in 1..Len(nodes) |-> DictGetOr(node_to_id, nodes[i][2], node_to_id[UNK])]]

(***************************************************************************)
(* __getitem__ on a parsed sample (lines 65-101): what the call does       *)
(* ("sample": returns (label, graph); "None": returns None; "raise": an    *)
(* exception leaves __getitem__), and the values it had built by then.     *)
(***************************************************************************)
NoGraph == [num_nodes |-> 0, edges |-> <<>>]

Outcome(kind, exc, label, nodes, graph, ndata) ==
  [outcome |-> kind, exc |-> exc, label |-> label, nodes |-> nodes,
   graph |-> graph, ndata |-> ndata]

NoData == [TOKEN |-> <<>>, NODE |-> <<>>]

BuildSample(cfg, sample) ==
  LET label == ConvertLabel(cfg, sample.label)
      built == BuildNodes(cfg, sample.ast)
      nodes == built.nodes
      edges == Edges(nodes)
      graph == DglGraph(edges)
      suitable == IsSuitableTree(cfg, graph)
  IN IF built.exc # "" THEN Outcome("raise", built.exc, label, nodes, NoGraph, NoData)
     \* us, vs = zip(*[]) cannot be unpacked
     ELSE IF edges = <<>> THEN Outcome("raise", "ValueError", label, nodes, NoGraph, NoData)
     ELSE IF suitable = "DGLError" THEN Outcome("raise", "DGLError", label, nodes, graph, NoData)
     ELSE IF suitable = "False" THEN Outcome("None", "", label, nodes, graph, NoData)
     \* a feature column must have one row per node of the graph
     ELSE IF Len(nodes) # graph.num_nodes
          THEN Outcome("raise", "DGLError", label, nodes, graph, NoData)
     ELSE Outcome("sample", "", label, nodes, graph, NodeData(nodes))

\* json.loads(raw_sample), and the except branch (lines 58-63)
IsMalformed(raw_sample) == raw_sample.json = None

(***************************************************************************)
(* __getitem__(index), whole (lines 56-101).  returned lists the calls     *)
(* made so far: the index asked for and what the call did.  One pass over  *)
(* the data is modelled: as many calls as the file has lines, on any       *)
(* indices, in any order.                                                  *)
(***************************************************************************)
GetItemResult(cfg, raw_sample) ==
  IF IsMalformed(raw_sample)
  THEN Outcome("None", "", <<>>, <<>>, NoGraph, NoData)
  ELSE BuildSample(cfg, Val(raw_sample.json))

\* an except branch that returns None without writing the line
WriteLogNothing(log, raw_sample) == log

\* with open(self._log_file, "a") as log_file: log_file.write(raw_sample + "\n")
WriteLog(log, raw_sample) ==
  IF IsMalformed(raw_sample) THEN Append(log, raw_sample.text \o <<"\n">>) ELSE log

GetItem(index) ==
  /\ Len(returned) < Len(line_offsets)
  /\ index \in 0..(Len(line_offsets) - 1)
  /\ LET raw_sample == ReadLine(data_file, line_offsets, index) IN
     /\ log_file' = WriteLog(log_file, raw_sample)
     /\ returned' = Append(returned, [index |-> index, raw |-> raw_sample.text,
                                      result |-> GetItemResult(config, raw_sample)])
  /\ UNCHANGED <<data_file, line_offsets, config, cell, batch, embedded_graph, run, applied,
               outputs>>

Next == \E index \in 0..(NLines - 1) : GetItem(index)

(***************************************************************************)
(* The inputs: AST documents of at most MaxAst nodes, malformed lines and  *)
(* the configurations.                                                     *)
(***************************************************************************)
AstIds == 0..(MaxAst - 1)

\* the children lists: none, one or two ids (the walk reads a list as a set,
\* so the order of the ids in it is immaterial)
ChildLists ==
  {<<>>} \cup {<<a>> : a \in AstIds} \cup {ab \in AstIds \X AstIds : ab[1] < ab[2]}

LeafTokens == {<<"a">>, <<"a", "|", "b">>, <<"b", "|", "a", "|", "c">>}

InternalAstNodes ==
  {[token |-> EMPTY_TOKEN, node |-> <<"Block">>, children |-> cs] : cs \in ChildLists}
  \cup {[token |-> <<"a">>, node |-> <<"Block">>, children |-> <<>>]}

LeafAstNodes == {[token |-> t, node |-> <<"Name">>] : t \in LeafTokens}

AstNodes == InternalAstNodes \cup LeafAstNodes

Asts == UNION {[1..n -> AstNodes] : n \in 0..MaxAst}

JsonText == <<"{", "}">>

JsonLines ==
  {[text |-> JsonText, json |-> Some([label |-> <<"get", "|", "name">>, ast |-> ast])] :
     ast \in Asts}

MalformedLines == {[text |-> t, json |-> None] : t \in {<<>>, <<"{">>, <<" ", "{", " ">>}}

Configs ==
  [max_token_parts : 1..MaxTokenParts,
   max_tree_nodes : {None, Some(MaxTreeNodes)},
   max_tree_depth : {None, Some(MaxTreeDepth)},
   max_label_parts : {MaxLabelParts}]

(***************************************************************************)
(* The batched graph the cells work on (dgl.batch of the graphs that       *)
(* __getitem__ returned, in the collate step): every tree gets a           *)
(* contiguous index range, its edges are shifted by the base offset of the *)
(* range and its root is recorded at base offset + local root index.       *)
(***************************************************************************)
RECURSIVE BaseOffset(_, _)
BaseOffset(trees, k) ==
  IF k = 1 THEN 0 ELSE BaseOffset(trees, k - 1) + trees[k - 1].graph.num_nodes

ShiftEdges(edges, base) == [i \in 1..Len(edges) |-> <<edges[i][1] + base, edges[i][2] + base>>]

\* the local index of the root of a tree: its parentless node
RootLocalIndex(tree) ==
  IF Parentless(tree.nodes) = {} THEN 0
  ELSE CHOOSE r \in Parentless(tree.nodes) : \A q \in Parentless(tree.nodes) : r <= q

\* a packing that merges the edges of the trees as they are
RECURSIVE PackUnshifted(_)
PackUnshifted(trees) ==
  IF trees = <<>>
  THEN [num_nodes |-> 0, edges |-> <<>>, ndata |-> NoData, batch_num_nodes |-> <<>>,
        root_indexes |-> <<>>]
  ELSE LET n == Len(trees)
           front == PackUnshifted(SubSeq(trees, 1, n - 1))
           tree == trees[n]
           base == front.num_nodes
       IN [num_nodes |-> base + tree.graph.num_nodes,
           edges |-> front.edges \o tree.graph.edges,
           ndata |-> [TOKEN |-> front.ndata.TOKEN \o tree.ndata.TOKEN,
                      NODE |-> front.ndata.NODE \o tree.ndata.NODE],
           batch_num_nodes |-> Append(front.batch_num_nodes, tree.graph.num_nodes),
           root_indexes |-> Append(front.root_indexes, base + RootLocalIndex(tree))]

RECURSIVE Pack(_)
Pack(trees) ==
  IF trees = <<>>
  THEN [num_nodes |-> 0, edges |-> <<>>, ndata |-> NoData, batch_num_nodes |-> <<>>,
        root_indexes |-> <<>>]
  ELSE LET n == Len(trees)
           front == Pack(SubSeq(trees, 1, n - 1))
           tree == trees[n]
           base == front.num_nodes
       IN [num_nodes |-> base + tree.graph.num_nodes,
           edges |-> front.edges \o ShiftEdges(tree.graph.edges, base),
           ndata |-> [TOKEN |-> front.ndata.TOKEN \o tree.ndata.TOKEN,
                      NODE |-> front.ndata.NODE \o tree.ndata.NODE],
           batch_num_nodes |-> Append(front.batch_num_nodes, tree.graph.num_nodes),
           root_indexes |-> Append(front.root_indexes, base + RootLocalIndex(tree))]

(***************************************************************************)
(* The Tree-LSTM cells (src/model/treeLSTM_cell.py).  h_size is 1: h, c,   *)
(* x_f and fc_sum are numbers, x_iou and Uh_sum are (i, o, u) triples.     *)
(* Reals are the integers modulo Modulus; sigmoid and tanh are stand-ins   *)
(* that keep tanh(0) = 0 and sigmoid(0) # 0.                               *)
(***************************************************************************)
Mod(v) == v % Modulus

Sigmoid(v) == Mod(v + 1)

Tanh(v) == Mod(2 * v)

RECURSIVE SumSeq(_)
SumSeq(s) == IF s = <<>> THEN 0 ELSE Mod(Head(s) + SumSeq(Tail(s)))

Scale(w, v) == <<Mod(w[1] * v), Mod(w[2] * v), Mod(w[3] * v)>>

Add3(a, b) == <<Mod(a[1] + b[1]), Mod(a[2] + b[2]), Mod(a[3] + b[3])>>

Zero3 == <<0, 0, 0>>

RECURSIVE Sum3(_)
Sum3(s) == IF s = <<>> THEN Zero3 ELSE Add3(Head(s), Sum3(Tail(s)))

RECURSIVE Sorted(_)
Sorted(s) ==
  IF s = <<>> THEN <<>>
  ELSE LET m == CHOOSE i \in 1..Len(s) : \A j \in 1..Len(s) : s[i] <= s[j]
       IN <<s[m]>> \o Sorted([k \in 1..(Len(s) - 1) |-> IF k < m THEN s[k] ELSE s[k + 1]])

\* the weights (_ITreeLSTMCell.__init__ and the cells' __init__), as trained
W_iou == <<1, 2, 3>>
b_iou == <<1, 0, 2>>
W_f == 2
b_f == 1
\* the m-th matrix of U_iou and of U_f (a cell with one matrix has m = 0)
U_iou(m) == <<m + 1, m + 2, 2 * m + 1>>
U_f(m) == m + 2
\* nn.Linear of MultiHeadAttentionTreeLSTMCell has a bias
U_iou_bias == <<1, 1, 1>>
U_f_bias == 1

Variants ==
  {"EdgeChildSum", "NodeChildSum", "EdgeSpecific", "TypeSpecific", "LuongAttention",
   "MultiHeadAttention"}

EdgeVariants == {"EdgeChildSum", "EdgeSpecific", "TypeSpecific"}

(***************************************************************************)
(* EdgeSpecificTreeLSTMCell.__init__ (lines 169-180): type_relationship is *)
(* a list of (src type ids, groups of dst type ids) in dict order; every   *)
(* group gets the next matrix id, a later group overwrites an earlier one. *)
(***************************************************************************)
RECURSIVE FlatGroups(_)
FlatGroups(type_relationship) ==
  IF type_relationship = <<>> THEN <<>>
  ELSE LET e == Head(type_relationship) IN
       [g \in 1..Len(e.groups) |-> [type_ids |-> e.src, dst_group |-> e.groups[g]]]
         \o FlatGroups(Tail(type_relationship))

RECURSIVE EdgeMatrixIdFrom(_, _, _)
EdgeMatrixIdFrom(groups, k, d) ==
  IF k > Len(groups) THEN d
  ELSE LET keys == {<<src_id, child_id>> : src_id \in Range(groups[k].type_ids),
                                           child_id \in Range(groups[k].dst_group)}
       IN EdgeMatrixIdFrom(groups, k + 1,
                           [key \in DOMAIN d \cup keys |-> IF key \in keys THEN k ELSE d[key]])

\* self.edge_matrix_id and count_diff_matrix (the number of matrices of U_iou, U_f)
EdgeSpecificInit(type_relationship) ==
  [edge_matrix_id |-> EdgeMatrixIdFrom(FlatGroups(type_relationship), 1, <<>>),
   count_diff_matrix |-> 1 + Len(FlatGroups(type_relationship))]

(***************************************************************************)
(* TypeSpecificTreeLSTMCell.__init__ (lines 246-258): nary_types is a list *)
(* of (src_type_id, lists of dst type ids) in dict order; all the lists of *)
(* one src_type_id share the indexes count .. count + len(first list) - 1. *)
(***************************************************************************)
RECURSIVE NaryMatrixIdFrom(_, _, _, _)
NaryMatrixIdFrom(nary_types, k, count, d) ==
  IF k > Len(nary_types) THEN [edge_matrix_id |-> d, count_diff_matrix |-> count]
  ELSE LET e == nary_types[k]
           width == Len(e.dst_type_ids[1])
           cur_indexes == [i \in 1..width |-> count + i - 1]
           keys == {Sorted(e.dst_type_ids[j]) : j \in 1..Len(e.dst_type_ids)}
           inner == IF e.src_type_id \in DOMAIN d THEN d[e.src_type_id] ELSE <<>>
           inner2 == [key \in DOMAIN inner \cup keys |->
                        IF key \in keys THEN cur_indexes ELSE inner[key]]
       IN NaryMatrixIdFrom(nary_types, k + 1, count + width,
                           [t \in DOMAIN d \cup {e.src_type_id} |->
                              IF t = e.src_type_id THEN inner2 ELSE d[t]])

TypeSpecificInit(nary_types) == NaryMatrixIdFrom(nary_types, 1, 1, <<>>)

\* what __init__ leaves in the cell
CellInit(variant, table) ==
  IF variant = "EdgeSpecific" THEN EdgeSpecificInit(table)
  ELSE IF variant = "TypeSpecific" THEN TypeSpecificInit(table)
  ELSE [edge_matrix_id |-> <<>>, count_diff_matrix |-> 1]

(***************************************************************************)
(* forward, the matrix of every edge.  An edge is (child, parent); its id  *)
(* is its place in the edge list.                                          *)
(***************************************************************************)
\* EdgeSpecificTreeLSTMCell.forward (lines 202-208): all_edges gives (src, dst,
\* id), bound to the names edge_dst, edge_src, edge_id in that order
\* a lookup with the key (type of the child, type of the parent)
EdgeLookupKeyChildFirst(graph, type_id, e) ==
  <<type_id[graph.edges[e][1]], type_id[graph.edges[e][2]]>>

EdgeLookupKey(graph, type_id, e) ==
  LET edge_dst == graph.edges[e][1]
      edge_src == graph.edges[e][2]
  IN <<type_id[edge_src], type_id[edge_dst]>>

EdgeSpecificMatrixId(edge_matrix_id, graph, type_id) ==
  [matrix_id |-> [e \in 1..Len(graph.edges) |->
                    DictGetOr(edge_matrix_id, EdgeLookupKey(graph, type_id, e), 0)],
   exc |-> "", at |-> -1]

\* graph.in_edges(node, form='all'): the ids of the edges into node, ascending
RECURSIVE InEdgeIds(_, _, _)
InEdgeIds(graph, node, e) ==
  IF e > Len(graph.edges) THEN <<>>
  ELSE (IF graph.edges[e][2] = node THEN <<e>> ELSE <<>>) \o InEdgeIds(graph, node, e + 1)

\* the dict key the lookup of line 285 uses for a node
NaryLookupKey(type_id, node) == node

\* TypeSpecificTreeLSTMCell.forward (lines 280-289), from node on; assigning k
\* indexes to the edges of a node is elementwise, or a broadcast when k = 1, and
\* otherwise a shape error
RECURSIVE NaryAssign(_, _, _, _, _)
NaryAssign(edge_matrix_id, graph, type_id, node, st) ==
  IF node >= graph.num_nodes \/ st.exc # "" THEN st
  ELSE LET edge_ids == InEdgeIds(graph, node, 1)
           children_ids ==
             Sorted([j \in 1..Len(edge_ids) |-> type_id[graph.edges[edge_ids[j]][1]]])
           key == NaryLookupKey(type_id, node)
           hit == key \in DOMAIN edge_matrix_id /\ children_ids \in DOMAIN edge_matrix_id[key]
           cur == edge_matrix_id[key][children_ids]
           pos(e) == CHOOSE j \in 1..Len(edge_ids) : edge_ids[j] = e
           st2 ==
             IF ~hit THEN st
             ELSE IF Len(cur) # Len(edge_ids) /\ Len(cur) # 1
                  THEN [st EXCEPT !.exc = "RuntimeError", !.at = node]
             ELSE [st EXCEPT !.matrix_id =
                     [e \in 1..Len(graph.edges) |->
                        IF e \notin Range(edge_ids) THEN st.matrix_id[e]
                        ELSE IF Len(cur) = 1 THEN cur[1] ELSE cur[pos(e)]]]
       IN NaryAssign(edge_matrix_id, graph, type_id, node + 1, st2)

TypeSpecificMatrixId(edge_matrix_id, graph, type_id) ==
  NaryAssign(edge_matrix_id, graph, type_id, 0,
             [matrix_id |-> [e \in 1..Len(graph.edges) |-> 0], exc |-> "", at |-> -1])

\* graph.edata['matrix_id'] (no such column for the other cells)
ResolveMatrixId(variant, edge_matrix_id, graph, type_id) ==
  IF variant = "EdgeSpecific" THEN EdgeSpecificMatrixId(edge_matrix_id, graph, type_id)
  ELSE IF variant = "TypeSpecific" THEN TypeSpecificMatrixId(edge_matrix_id, graph, type_id)
  ELSE [matrix_id |-> [e \in 1..Len(graph.edges) |-> 0], exc |-> "", at |-> -1]

(***************************************************************************)
(* The batched graph the cell works on.  The embedding (model.embedding,   *)
(* called by Tree2Seq.forward) fills the columns x and type_id; a column   *)
(* the graph does not have is None.                                        *)
(***************************************************************************)
Embedding(packed) ==
  [num_nodes |-> packed.num_nodes,
   edges |-> packed.edges,
   batch_num_nodes |-> packed.batch_num_nodes,
   root_indexes |-> packed.root_indexes,
   ndata |-> [TOKEN |-> packed.ndata.TOKEN, NODE |-> packed.ndata.NODE,
              x |-> [i \in 1..packed.num_nodes |->
                       Mod(packed.ndata.TOKEN[i] + packed.ndata.NODE[i])],
              type_id |-> packed.ndata.NODE,
              x_iou |-> None, x_f |-> None, h |-> None, c |-> None,
              Uh_sum |-> None, fc_sum |-> None],
   edata |-> [matrix_id |-> None]]

\* graph.ndata['type_id'][node]
TypeIdOf(graph) == [v \in GraphNodes(graph) |-> graph.ndata.type_id[v + 1]]

\* an initialisation that keeps the Uh_sum and fc_sum the graph already has
InitMatricesKeep(graph) ==
  LET number_of_nodes == graph.num_nodes
      zeros == [i \in 1..number_of_nodes |-> 0]
      nd == graph.ndata
  IN [graph EXCEPT !.ndata =
        [TOKEN |-> nd.TOKEN, NODE |-> nd.NODE, x |-> nd.x, type_id |-> nd.type_id,
         x_iou |-> [i \in 1..number_of_nodes |-> Add3(Scale(W_iou, nd.x[i]), b_iou)],
         x_f |-> [i \in 1..number_of_nodes |-> Mod(W_f * nd.x[i] + b_f)],
         h |-> zeros,
         c |-> zeros,
         Uh_sum |-> IF nd.Uh_sum = None THEN [i \in 1..number_of_nodes |-> Zero3]
                    ELSE nd.Uh_sum,
         fc_sum |-> IF nd.fc_sum = None THEN zeros ELSE nd.fc_sum]]

\* _init_matrices (lines 50-58)
InitMatrices(graph) ==
  LET number_of_nodes == graph.num_nodes
      zeros == [i \in 1..number_of_nodes |-> 0]
      nd == graph.ndata
  IN [graph EXCEPT !.ndata =
        [TOKEN |-> nd.TOKEN, NODE |-> nd.NODE, x |-> nd.x, type_id |-> nd.type_id,
         x_iou |-> [i \in 1..number_of_nodes |-> Add3(Scale(W_iou, nd.x[i]), b_iou)],
         x_f |-> [i \in 1..number_of_nodes |-> Mod(W_f * nd.x[i] + b_f)],
         h |-> zeros,
         c |-> zeros,
         Uh_sum |-> [i \in 1..number_of_nodes |-> Zero3],
         fc_sum |-> zeros]]

\* message_func of the cells that compute in the message (lines 71-78, 182-193,
\* 260-271): the message of edge e, from edges.src (the child) to edges.dst
MessageFunc(variant, graph, e) ==
  LET src == graph.edges[e][1]
      dst == graph.edges[e][2]
      m == IF variant = "EdgeChildSum" THEN 0 ELSE graph.edata.matrix_id[e]
      h_f == Mod(U_f(m) * graph.ndata.h[src + 1])
      f == Sigmoid(graph.ndata.x_f[dst + 1] + h_f)
  IN [Uh |-> Scale(U_iou(m), graph.ndata.h[src + 1]),
      fc |-> Mod(graph.ndata.c[src + 1] * f)]

\* nodes.mailbox of the cells whose message is fn.copy_u: the h (the c) of the
\* children of node, in the order of the edges
MailboxOf(graph, node, column) ==
  LET edge_ids == InEdgeIds(graph, node, 1)
  IN [j \in 1..Len(edge_ids) |-> column[graph.edges[edge_ids[j]][1] + 1]]

\* LuongAttentionTreeLSTMCell.reduce_func, lines 324-342: the attended hidden
\* state; W_a is (2, 1), v_a is 3, and the softmax weight of a child is stood
\* for by the sigmoid of its score
LuongAttn(x, h_children) ==
  SumSeq([j \in 1..Len(h_children) |->
            Mod(Sigmoid(3 * Tanh(2 * x + h_children[j])) * h_children[j])])

\* nn.MultiheadAttention with query x and keys and values h of the children
\* (line 398): one head, all projections 1, the weight of a child stood for by
\* the sigmoid of query times key
MultiheadAttention(query, key_value) ==
  SumSeq([j \in 1..Len(key_value) |-> Mod(Sigmoid(query * key_value[j]) * key_value[j])])

\* the forget gates times the c of the children, summed (lines 122-123, 345-347)
ForgetSum(x_f, mailbox_h, mailbox_c) ==
  SumSeq([j \in 1..Len(mailbox_h) |->
            Mod(Sigmoid(U_f(0) * mailbox_h[j] + x_f) * mailbox_c[j])])

\* reduce_func of every cell on one node: Uh_sum and fc_sum
ReduceFunc(variant, graph, node) ==
  LET edge_ids == InEdgeIds(graph, node, 1)
      mailbox_h == MailboxOf(graph, node, graph.ndata.h)
      mailbox_c == MailboxOf(graph, node, graph.ndata.c)
      x == graph.ndata.x[node + 1]
      x_f == graph.ndata.x_f[node + 1]
  IN IF variant \in EdgeVariants
     \* fn.sum('Uh', 'Uh_sum'), fn.sum('fc', 'fc_sum')
     THEN [Uh_sum |-> Sum3([j \in 1..Len(edge_ids) |->
                              MessageFunc(variant, graph, edge_ids[j]).Uh]),
           fc_sum |-> SumSeq([j \in 1..Len(edge_ids) |->
                                MessageFunc(variant, graph, edge_ids[j]).fc])]
     ELSE IF variant = "NodeChildSum"
     THEN [Uh_sum |-> Scale(U_iou(0), SumSeq(mailbox_h)),
           fc_sum |-> ForgetSum(x_f, mailbox_h, mailbox_c)]
     ELSE IF variant = "LuongAttention"
     THEN [Uh_sum |-> Scale(U_iou(0), LuongAttn(x, mailbox_h)),
           fc_sum |-> ForgetSum(x_f, mailbox_h, mailbox_c)]
     ELSE LET h_attn == MultiheadAttention(x, mailbox_h)
              h_f == Mod(U_f(0) * h_attn + U_f_bias)
              f == Sigmoid(x_f + h_f)
          IN [Uh_sum |-> Add3(Scale(U_iou(0), h_attn), U_iou_bias),
              fc_sum |-> SumSeq([j \in 1..Len(mailbox_c) |-> Mod(mailbox_c[j] * f)])]

\* a reduce that also runs on a node without incoming edges
ReducesOnEveryNode(graph, node) == TRUE

\* graph.pull inside dgl.prop_nodes_topo: the reduce function runs on the nodes
\* that have incoming edges; a node without any keeps its Uh_sum and fc_sum
ReducesOn(graph, node) == InEdgeIds(graph, node, 1) # <<>>

\* _ITreeLSTMCell.apply_node_func (lines 28-36)
ApplyNodeFunc(x_iou, Uh_sum, fc_sum) ==
  LET iou == Add3(x_iou, Uh_sum)
      i == Sigmoid(iou[1])
      o == Sigmoid(iou[2])
      u == Tanh(iou[3])
      c == Mod(i * u + fc_sum)
      h == Mod(o * Tanh(c))
  IN [h |-> h, c |-> c]

\* what one node of the frontier gets: the reduced sums, then h and c
PullNode(variant, graph, node) ==
  LET reduced == IF ReducesOn(graph, node) THEN ReduceFunc(variant, graph, node)
                 ELSE [Uh_sum |-> graph.ndata.Uh_sum[node + 1],
                       fc_sum |-> graph.ndata.fc_sum[node + 1]]
      applied_to == ApplyNodeFunc(graph.ndata.x_iou[node + 1], reduced.Uh_sum, reduced.fc_sum)
  IN [node |-> node, in_degree |-> Len(InEdgeIds(graph, node, 1)),
      \* edges.src of the messages to node, and the h and c read from them
      children |-> [j \in 1..Len(InEdgeIds(graph, node, 1)) |->
                      graph.edges[InEdgeIds(graph, node, 1)[j]][1]],
      src_h |-> MailboxOf(graph, node, graph.ndata.h),
      src_c |-> MailboxOf(graph, node, graph.ndata.c),
      x_iou |-> graph.ndata.x_iou[node + 1],
      Uh_sum |-> reduced.Uh_sum, fc_sum |-> reduced.fc_sum,
      h |-> applied_to.h, c |-> applied_to.c]

\* graph.pull(frontier, message_func, reduce_func, apply_node_func): one step of
\* dgl.prop_nodes_topo, on all the nodes of the frontier at once
Pull(variant, graph, frontier) ==
  LET nd == graph.ndata
      new(v, column, field) ==
        IF v \in frontier THEN PullNode(variant, graph, v)[field] ELSE column[v + 1]
  IN [graph EXCEPT !.ndata =
        [TOKEN |-> nd.TOKEN, NODE |-> nd.NODE, x |-> nd.x, type_id |-> nd.type_id,
         x_iou |-> nd.x_iou, x_f |-> nd.x_f,
         h |-> [i \in 1..graph.num_nodes |-> new(i - 1, nd.h, "h")],
         c |-> [i \in 1..graph.num_nodes |-> new(i - 1, nd.c, "c")],
         Uh_sum |-> [i \in 1..graph.num_nodes |-> new(i - 1, nd.Uh_sum, "Uh_sum")],
         fc_sum |-> [i \in 1..graph.num_nodes |-> new(i - 1, nd.fc_sum, "fc_sum")]]]

\* h = graph.ndata.pop('h'); c = graph.ndata.pop('c')
PopStates(graph) ==
  [graph EXCEPT !.ndata =
     [TOKEN |-> graph.ndata.TOKEN, NODE |-> graph.ndata.NODE, x |-> graph.ndata.x,
      type_id |-> graph.ndata.type_id, x_iou |-> graph.ndata.x_iou,
      x_f |-> graph.ndata.x_f, h |-> None, c |-> None,
      Uh_sum |-> graph.ndata.Uh_sum, fc_sum |-> graph.ndata.fc_sum]]

(***************************************************************************)
(* The cells and the batches of the forward passes.  The node types of the *)
(* documents are Block (1) and Name (2); 0 is the type of an unknown one.  *)
(***************************************************************************)
\* type_relationship of EdgeSpecificTreeLSTMCell, in dict order
TypeRelationships ==
  {<<>>,
   <<[src |-> <<1>>, groups |-> <<(<<2>>), (<<1>>)>>]>>,
   <<[src |-> <<2>>, groups |-> <<(<<1>>)>>]>>,
   <<[src |-> <<1, 2>>, groups |-> <<(<<1, 2>>)>>], [src |-> <<1>>, groups |-> <<(<<2>>)>>]>>}

\* nary_types of TypeSpecificTreeLSTMCell, in dict order
NaryTypes ==
  {<<>>,
   <<[src_type_id |-> 1, dst_type_ids |-> <<(<<2>>), (<<2, 2>>)>>]>>,
   <<[src_type_id |-> 1, dst_type_ids |-> <<(<<2, 1>>)>>],
     [src_type_id |-> 2, dst_type_ids |-> <<(<<>>)>>]>>,
   <<[src_type_id |-> 0, dst_type_ids |-> <<(<<2>>)>>],
     [src_type_id |-> 1, dst_type_ids |-> <<(<<2, 2>>), (<<1>>)>>]>>}

TablesOf(variant) ==
  IF variant = "EdgeSpecific" THEN TypeRelationships
  ELSE IF variant = "TypeSpecific" THEN NaryTypes
  ELSE {<<>>}

\* the cell after __init__
CellOf(variant, table) ==
  [variant |-> variant, table |-> table,
   edge_matrix_id |-> CellInit(variant, table).edge_matrix_id,
   count_diff_matrix |-> CellInit(variant, table).count_diff_matrix]

\* the documents of the batches: internal nodes and one kind of leaf
\* a document whose root has a leaf child and an internal child
UnevenAst ==
  <<[token |-> EMPTY_TOKEN, node |-> <<"Block">>, children |-> <<1, 2>>],
    [token |-> EMPTY_TOKEN, node |-> <<"Block">>, children |-> <<3>>],
    [token |-> <<"a", "|", "b">>, node |-> <<"Name">>],
    [token |-> <<"a">>, node |-> <<"Name">>]>>

CellAsts ==
  LET kinds == {n \in AstNodes : n.token \in {EMPTY_TOKEN, <<"a", "|", "b">>}}
  IN UNION {[1..n -> kinds] : n \in 1..MaxAst} \cup {UnevenAst}

\* the samples __getitem__ returns for the documents
AcceptedSamples(cfg) ==
  {r \in {BuildSample(cfg, [label |-> <<"get">>, ast |-> ast]) : ast \in CellAsts} :
     r.outcome = "sample"}

\* the batches of at most len of the samples, of at most budget nodes in all
RECURSIVE BatchesOf(_, _, _)
BatchesOf(samples, budget, len) ==
  IF len = 0 THEN {<<>>}
  ELSE {<<>>} \cup
       UNION {{<<s>> \o rest : rest \in BatchesOf(samples, budget - s.graph.num_nodes, len - 1)} :
                s \in {t \in samples : t.graph.num_nodes <= budget}}

Batches(cfg) == BatchesOf(AcceptedSamples(cfg), MaxNodes, MaxBatch) \ {<<>>}

NoLookup == [matrix_id |-> <<>>, exc |-> "", at |-> -1]

IdleRun == [pc |-> "idle", frontiers |-> <<>>, k |-> 0, scheduled |-> FALSE,
            loop |-> FALSE, lookup |-> NoLookup]

NoGraphYet == Embedding(Pack(<<>>))

NoCell == CellOf("EdgeChildSum", <<>>)

\* forward up to the first frontier: the matrix ids of the edges, the
\* initial columns, and the frontiers of dgl.prop_nodes_topo, which come from
\* dgl.topological_nodes_generator before anything is propagated
Forward ==
  /\ run.pc = "idle"
  /\ Len(outputs) < MaxPasses
  /\ LET specific == cell.variant \in {"EdgeSpecific", "TypeSpecific"}
         resolved == ResolveMatrixId(cell.variant, cell.edge_matrix_id, embedded_graph,
                                     TypeIdOf(embedded_graph))
         with_ids == IF specific
                     THEN [embedded_graph EXCEPT !.edata = [matrix_id |-> resolved.matrix_id]]
                     ELSE embedded_graph
         initialised == InitMatrices(with_ids)
         topo == TopologicalNodesGenerator(initialised)
         lookup == IF specific THEN resolved ELSE NoLookup
     IN IF resolved.exc # ""
        THEN /\ outputs' = Append(outputs, [exc |-> resolved.exc, h |-> None, c |-> None])
             /\ run' = [IdleRun EXCEPT !.lookup = lookup]
             /\ UNCHANGED embedded_graph
        ELSE IF topo.loop
        THEN /\ outputs' = Append(outputs, [exc |-> "DGLError", h |-> None, c |-> None])
             /\ run' = [IdleRun EXCEPT !.lookup = lookup, !.scheduled = TRUE, !.loop = TRUE,
                                       !.frontiers = topo.frontiers]
             /\ embedded_graph' = initialised
        ELSE /\ outputs' = outputs
             /\ run' = [pc |-> "propagating", frontiers |-> topo.frontiers, k |-> 1,
                        scheduled |-> TRUE, loop |-> FALSE, lookup |-> lookup]
             /\ embedded_graph' = initialised
  /\ UNCHANGED <<data_file, line_offsets, config, log_file, returned, cell, batch, applied>>

\* one frontier of dgl.prop_nodes_topo
PropagateFrontier ==
  /\ run.pc = "propagating"
  /\ run.k <= Len(run.frontiers)
  /\ embedded_graph' = Pull(cell.variant, embedded_graph, run.frontiers[run.k])
  /\ applied' = applied \cup
       {[pass |-> Len(outputs) + 1, frontier |-> run.k,
         at |-> PullNode(cell.variant, embedded_graph, v)] :
          v \in run.frontiers[run.k]}
  /\ run' = [run EXCEPT !.k = @ + 1]
  /\ UNCHANGED <<data_file, line_offsets, config, log_file, returned, cell, batch, outputs>>

\* the end of forward: h and c leave the graph and are returned
Return ==
  /\ run.pc = "propagating"
  /\ run.k > Len(run.frontiers)
  /\ outputs' = Append(outputs, [exc |-> "", h |-> embedded_graph.ndata.h,
                                 c |-> embedded_graph.ndata.c])
  /\ embedded_graph' = PopStates(embedded_graph)
  /\ run' = [run EXCEPT !.pc = "idle"]
  /\ UNCHANGED <<data_file, line_offsets, config, log_file, returned, cell, batch, applied>>

NextCell == Forward \/ PropagateFrontier \/ Return

InitCell ==
  /\ data_file = <<>>
  /\ line_offsets = <<>>
  /\ log_file = <<>>
  /\ returned = <<>>
  /\ config \in Configs
  /\ batch \in Batches(config)
  /\ embedded_graph = Embedding(Pack(batch))
  /\ \E variant \in Variants : \E table \in TablesOf(variant) : cell = CellOf(variant, table)
  /\ run = IdleRun
  /\ applied = {}
  /\ outputs = <<>>

SpecCell == InitCell /\ [][NextCell]_vars

\* a data file of one line, any line
Init ==
  /\ data_file \in {<<line>> : line \in JsonLines \cup MalformedLines}
  /\ line_offsets = LineOffsets(data_file)
  /\ config \in Configs
  /\ log_file = <<>>
  /\ returned = <<>>
  /\ cell = NoCell
  /\ batch = <<>>
  /\ embedded_graph = NoGraphYet
  /\ run = IdleRun
  /\ applied = {}
  /\ outputs = <<>>

Spec == Init /\ [][Next]_vars

\* a data file of NLines lines: malformed lines among well-formed ones
SampleAsts ==
  {<<[token |-> EMPTY_TOKEN, node |-> <<"Block">>, children |-> <<1>>],
     [token |-> <<"a", "|", "b">>, node |-> <<"Name">>]>>,
   <<[token |-> EMPTY_TOKEN, node |-> <<"Block">>, children |-> <<2, 1, 2>>],
     [token |-> EMPTY_TOKEN, node |-> <<"Block">>, children |-> <<>>],
     [token |-> <<"b">>, node |-> <<"Name">>]>>}

SampleLines ==
  {[text |-> JsonText \o <<" ">>,
    json |-> Some([label |-> <<"get", "|", "x", "|", "name">>, ast |-> ast])] :
     ast \in SampleAsts}

InitDataset ==
  /\ data_file \in [1..NLines -> SampleLines \cup MalformedLines]
  /\ line_offsets = LineOffsets(data_file)
  /\ config \in Configs
  /\ log_file = <<>>
  /\ returned = <<>>
  /\ cell = NoCell
  /\ batch = <<>>
  /\ embedded_graph = NoGraphYet
  /\ run = IdleRun
  /\ applied = {}
  /\ outputs = <<>>

SpecDataset == InitDataset /\ [][Next]_vars

(***************************************************************************)
(* Vocabulary of the properties.                                           *)
(***************************************************************************)
\* the calls made on a line that parsed, with the AST of the line
LineOf(call) == data_file[call.index + 1]

Parsed(call) == LineOf(call).json # None

AstOf(call) == Val(LineOf(call).json).ast

CallIds == 1..Len(returned)

\* the number of separator-split pieces of a token, and its k-th piece, read
\* off the positions of the separators
SeparatorPositions(token) == {i \in 1..Len(token) : token[i] = SEPARATOR}

NumPieces(token) == Cardinality(SeparatorPositions(token)) + 1

PieceStart(token, k) ==
  IF k = 1 THEN 1
  ELSE 1 + CHOOSE p \in SeparatorPositions(token) :
             Cardinality({q \in SeparatorPositions(token) : q <= p}) = k - 1

PieceEnd(token, k) ==
  IF k = NumPieces(token) THEN Len(token)
  ELSE (CHOOSE p \in SeparatorPositions(token) :
          Cardinality({q \in SeparatorPositions(token) : q <= p}) = k) - 1

NthPiece(token, k) == SubSeq(token, PieceStart(token, k), PieceEnd(token, k))

\* the canonical nodes an AST node stands for
CanonicalCount(cfg, node) ==
  IF IsInternal(node) THEN 1 ELSE Min(NumPieces(node.token), cfg.max_token_parts)

RECURSIVE CanonicalStart(_, _, _)
CanonicalStart(cfg, ast, i) ==
  IF i = 1 THEN 0
  ELSE CanonicalStart(cfg, ast, i - 1) + CanonicalCount(cfg, ast[i - 1])

\* node i reaches root by at most k parent links
RECURSIVE ReachesWithin(_, _, _, _)
ReachesWithin(nodes, i, root, k) ==
  \/ i = root
  \/ /\ k > 0
     /\ nodes[i + 1][3] # None
     /\ ReachesWithin(nodes, Val(nodes[i + 1][3]), root, k - 1)

\* the nodes on the longest chain of parent links that ends at node i
RECURSIVE ChainBelow(_, _, _)
ChainBelow(nodes, i, fuel) ==
  LET kids == {j \in 0..(Len(nodes) - 1) : nodes[j + 1][3] = Some(i)} IN
  IF kids = {} \/ fuel = 0 THEN 1
  ELSE 1 + SetMax({ChainBelow(nodes, j, fuel - 1) : j \in kids})

TreeDepth(nodes) ==
  SetMax({ChainBelow(nodes, i, Len(nodes)) : i \in 0..(Len(nodes) - 1)})

(***************************************************************************)
(* C1: a document built without error has as many canonical nodes as it    *)
(* has internal AST nodes plus, for every leaf, the smaller of the number  *)
(* of separator-split pieces of its token and max_token_parts.             *)
(***************************************************************************)
RECURSIVE ExpectedCount(_, _)
ExpectedCount(cfg, ast) ==
  IF ast = <<>> THEN 0
  ELSE CanonicalCount(cfg, Head(ast)) + ExpectedCount(cfg, Tail(ast))

C1_NodeCount ==
  \A k \in CallIds :
    (Parsed(returned[k]) /\ returned[k].result.outcome # "raise")
      => Len(returned[k].result.nodes) = ExpectedCount(config, AstOf(returned[k]))

C1_Witness ==
  \E k \in CallIds :
    /\ Parsed(returned[k])
    /\ returned[k].result.outcome = "sample"
    /\ \E i \in 1..Len(AstOf(returned[k])) :
         /\ ~IsInternal(AstOf(returned[k])[i])
         /\ NumPieces(AstOf(returned[k])[i].token) > config.max_token_parts
    /\ \E i \in 1..Len(AstOf(returned[k])) :
         /\ ~IsInternal(AstOf(returned[k])[i])
         /\ NumPieces(AstOf(returned[k])[i].token) < config.max_token_parts

(***************************************************************************)
(* C2: every tree __getitem__ returns has exactly one canonical node       *)
(* without a parent, the root, and every other node reaches the root by at *)
(* most max_tree_depth parent links.  (The code does not check it.)        *)
(***************************************************************************)
C2_SingleRoot ==
  \A k \in CallIds :
    (Parsed(returned[k]) /\ returned[k].result.outcome = "sample")
      => LET nodes == returned[k].result.nodes IN
         /\ Cardinality(Parentless(nodes)) = 1
         /\ \A i \in 0..(Len(nodes) - 1) :
              \A root \in Parentless(nodes) :
                ReachesWithin(nodes, i, root,
                              IF config.max_tree_depth = None THEN Len(nodes)
                              ELSE Val(config.max_tree_depth))

(***************************************************************************)
(* C3: for every leaf AST node of a document built without error, the      *)
(* canonical nodes are the first max_token_parts pieces of its token, in   *)
(* order, at consecutive indices, all with the canonical index of an       *)
(* internal node that lists the leaf as a child for parent; and cutting    *)
(* the token to its first max_token_parts pieces beforehand changes        *)
(* nothing of what the call does.                                          *)
(***************************************************************************)
RECURSIVE JoinPieces(_)
JoinPieces(pieces) ==
  IF Len(pieces) = 1 THEN pieces[1]
  ELSE pieces[1] \o <<SEPARATOR>> \o JoinPieces(Tail(pieces))

CutToken(cfg, node) ==
  IF IsInternal(node) THEN node
  ELSE [node EXCEPT !.token =
          JoinPieces([k \in 1..CanonicalCount(cfg, node) |-> NthPiece(node.token, k)])]

CutAst(cfg, ast) == [i \in 1..Len(ast) |-> CutToken(cfg, ast[i])]

LeafExpansion(cfg, ast, nodes, i) ==
  LET start == CanonicalStart(cfg, ast, i)
      count == CanonicalCount(cfg, ast[i])
  IN /\ \A k \in 1..count :
          /\ nodes[start + k][1] = NthPiece(ast[i].token, k)
          /\ nodes[start + k][3] = nodes[start + 1][3]
     /\ \E j \in 1..Len(ast) :
          /\ IsInternal(ast[j])
          /\ (i - 1) \in Range(ast[j].children)
          /\ nodes[start + 1][3] = Some(CanonicalStart(cfg, ast, j))

C3_LeafExpansion ==
  \A k \in CallIds :
    Parsed(returned[k])
      => LET ast == AstOf(returned[k])
             res == returned[k].result
             cut == BuildSample(config, [label |-> Val(LineOf(returned[k]).json).label,
                                         ast |-> CutAst(config, ast)])
         IN /\ res.outcome # "raise"
                 => \A i \in 1..Len(ast) :
                      ~IsInternal(ast[i]) => LeafExpansion(config, ast, res.nodes, i)
            /\ res.outcome = cut.outcome /\ res.exc = cut.exc /\ res.nodes = cut.nodes

C3_Witness ==
  \E k \in CallIds :
    /\ Parsed(returned[k])
    /\ returned[k].result.outcome = "sample"
    /\ config.max_token_parts > 1
    /\ \E i \in 1..Len(AstOf(returned[k])) :
         /\ ~IsInternal(AstOf(returned[k])[i])
         /\ NumPieces(AstOf(returned[k])[i].token) > config.max_token_parts
         /\ CanonicalStart(config, AstOf(returned[k]), i) > 1

(***************************************************************************)
(* C4: a tree that was built is returned exactly when its node count is    *)
(* within max_tree_nodes (if set) and its depth within max_tree_depth (if  *)
(* set); a tree that is not returned gives None, whole, one None a call.   *)
(***************************************************************************)
WithinLimits(cfg, nodes) ==
  /\ cfg.max_tree_nodes = None \/ Len(nodes) <= Val(cfg.max_tree_nodes)
  /\ cfg.max_tree_depth = None \/ TreeDepth(nodes) <= Val(cfg.max_tree_depth)

C4_Filter ==
  \A k \in CallIds :
    (Parsed(returned[k]) /\ returned[k].result.outcome # "raise")
      => LET res == returned[k].result IN
         /\ res.outcome = "sample" <=> WithinLimits(config, res.nodes)
         /\ res.outcome = "sample"
              => /\ res.graph.num_nodes = Len(res.nodes)
                 /\ Len(res.ndata.TOKEN) = Len(res.nodes)
                 /\ Len(res.ndata.NODE) = Len(res.nodes)
         /\ res.outcome = "None" => res.ndata = NoData

C4_Witness ==
  \E k \in CallIds :
    /\ Parsed(returned[k])
    /\ config.max_tree_nodes # None /\ config.max_tree_depth # None
    /\ returned[k].result.outcome = "None"
    /\ Len(returned[k].result.nodes) = Val(config.max_tree_nodes)

(***************************************************************************)
(* C9: a document with an internal AST node whose token is not "<EMPTY>"   *)
(* makes __getitem__ raise: no None, no tree.                              *)
(***************************************************************************)
HasBadInternal(ast) ==
  \E i \in 1..Len(ast) : IsInternal(ast[i]) /\ ast[i].token # EMPTY_TOKEN

C9_InternalToken ==
  \A k \in CallIds :
    (Parsed(returned[k]) /\ HasBadInternal(AstOf(returned[k])))
      => /\ returned[k].result.outcome = "raise"
         /\ returned[k].result.ndata = NoData

C9_Witness ==
  \E k \in CallIds :
    /\ Parsed(returned[k])
    /\ HasBadInternal(AstOf(returned[k]))
    /\ returned[k].result.exc = "AssertionError"
    /\ Len(returned[k].result.nodes) > 1

(***************************************************************************)
(* C8: a call on a line that is not parseable JSON appends the line's text *)
(* (as _read_line returns it, stripped) and a newline to the log, returns  *)
(* None without raising, builds nothing, and leaves the dataset as it was: *)
(* the offsets are those of the file, every call reads the line of its     *)
(* index, and calls on the same index do the same whatever was read        *)
(* before.                                                                 *)
(***************************************************************************)
RECURSIVE ExpectedLog(_)
ExpectedLog(k) ==
  IF k = 0 THEN <<>>
  ELSE IF Parsed(returned[k]) THEN ExpectedLog(k - 1)
  ELSE Append(ExpectedLog(k - 1), Strip(LineOf(returned[k]).text) \o <<"\n">>)

RECURSIVE ByteOffsets(_, _)
ByteOffsets(file, i) ==
  IF i = 1 THEN 0 ELSE ByteOffsets(file, i - 1) + Len(file[i - 1].text) + 1

C8_MalformedLine ==
  /\ \A k \in CallIds :
       ~Parsed(returned[k])
         => returned[k].result = Outcome("None", "", <<>>, <<>>, NoGraph, NoData)
  /\ log_file = ExpectedLog(Len(returned))
  /\ line_offsets = [i \in 1..Len(data_file) |-> ByteOffsets(data_file, i)]
  /\ \A k \in CallIds : returned[k].raw = Strip(LineOf(returned[k]).text)
  /\ \A k, m \in CallIds :
       returned[k].index = returned[m].index => returned[k].result = returned[m].result
  /\ \A k \in CallIds :
       Parsed(returned[k])
         => returned[k].result.label =
              ConvertLabel(config, Val(LineOf(returned[k]).json).label)

C8_Witness ==
  \E k, m \in CallIds :
    /\ k < m
    /\ ~Parsed(returned[k])
    /\ LineOf(returned[k]).text # Strip(LineOf(returned[k]).text)
    /\ Parsed(returned[m])
    /\ returned[m].result.outcome = "sample"
    /\ Len(log_file) = 1

(***************************************************************************)
(* C5: once a forward pass of a batch of accepted trees has asked for the  *)
(* frontiers, the schedule exists, every node of the batched graph is in   *)
(* exactly one frontier, and there are as many frontiers as the deepest    *)
(* tree of the batch has nodes on its longest chain.                       *)
(***************************************************************************)
BatchDepth == SetMax({TreeDepth(batch[k].nodes) : k \in 1..Len(batch)})

ForwardStarted == outputs # <<>> \/ run.pc = "propagating"

C5_FrontierSchedule ==
  ForwardStarted /\ run.lookup.exc = "" =>
    /\ run.scheduled
    /\ ~run.loop
    /\ \A v \in GraphNodes(embedded_graph) :
         Cardinality({k \in 1..Len(run.frontiers) : v \in run.frontiers[k]}) = 1
    /\ Len(run.frontiers) = BatchDepth

(***************************************************************************)
(* C6: whatever the cell, when apply_node_func runs on a node without      *)
(* incoming edges its Uh_sum and fc_sum are zero, and its h and c are the  *)
(* gates of its own x_iou.                                                 *)
(***************************************************************************)
C6_LeafSums ==
  \A a \in applied :
    a.at.in_degree = 0 =>
      /\ a.at.Uh_sum = Zero3
      /\ a.at.fc_sum = 0
      /\ a.at.c = Mod(Sigmoid(a.at.x_iou[1]) * Tanh(a.at.x_iou[3]))
      /\ a.at.h = Mod(Sigmoid(a.at.x_iou[2]) * Tanh(a.at.c))

\* a leaf of a multi-head cell is applied in a second pass over the graph
C6_Witness ==
  \E a \in applied :
    a.at.in_degree = 0 /\ a.pass > 1 /\ cell.variant = "MultiHeadAttention"

(***************************************************************************)
(* C7: in the edge-specific and the type-specific cell every edge gets a   *)
(* matrix index below the number of matrices, the index is 0 when the type *)
(* pair of the edge (the signature of the children of its parent node) is  *)
(* not in the table, and the lookup does not fail on a miss.               *)
(***************************************************************************)
\* the table has the pair: parent_type in a src group, child_type in one of
\* the dst groups of that src group
TypePairInTable(table, parent_type, child_type) ==
  \E k \in 1..Len(table) :
    /\ parent_type \in Range(table[k].src)
    /\ \E g \in 1..Len(table[k].groups) : child_type \in Range(table[k].groups[g])

\* the table has the signature for the type of the node
SignatureInTable(table, node_type, signature) ==
  \E k \in 1..Len(table) :
    /\ table[k].src_type_id = node_type
    /\ \E j \in 1..Len(table[k].dst_type_ids) : Sorted(table[k].dst_type_ids[j]) = signature

ChildrenSignature(g, node) ==
  Sorted(MailboxOf(g, node, g.ndata.type_id))

NodeInTable(g, node) ==
  SignatureInTable(cell.table, g.ndata.type_id[node + 1], ChildrenSignature(g, node))

EdgeInTable(g, e) ==
  IF cell.variant = "EdgeSpecific"
  THEN TypePairInTable(cell.table, g.ndata.type_id[g.edges[e][2] + 1],
                       g.ndata.type_id[g.edges[e][1] + 1])
  ELSE NodeInTable(g, g.edges[e][2])

C7_MatrixIndex ==
  ForwardStarted /\ cell.variant \in {"EdgeSpecific", "TypeSpecific"} =>
    IF run.lookup.exc # "" THEN NodeInTable(embedded_graph, run.lookup.at)
    ELSE \A e \in 1..Len(embedded_graph.edges) :
           /\ run.lookup.matrix_id[e] \in 0..(cell.count_diff_matrix - 1)
           /\ ~EdgeInTable(embedded_graph, e) => run.lookup.matrix_id[e] = 0

(***************************************************************************)
(* C10: the node features and the edges read back from the index range of  *)
(* a tree of the batch, less the base offset of the tree, are those of the *)
(* tree packed alone, and the root recorded for the tree is the base       *)
(* offset plus its local root index.                                       *)
(***************************************************************************)
ReadBack(g, base, n) ==
  LET InRange(edge) == \E i \in 1..2 : edge[i] \in base..(base + n - 1)
      own == SelectSeq(g.edges, InRange)
  IN [edges |-> [i \in 1..Len(own) |-> <<own[i][1] - base, own[i][2] - base>>],
      TOKEN |-> SubSeq(g.ndata.TOKEN, base + 1, base + n),
      NODE |-> SubSeq(g.ndata.NODE, base + 1, base + n)]

C10_BatchInvariant ==
  \A k \in 1..Len(batch) :
    LET base == BaseOffset(batch, k)
        alone == Pack(<<batch[k]>>)
        back == ReadBack(embedded_graph, base, alone.num_nodes)
    IN /\ embedded_graph.batch_num_nodes[k] = alone.num_nodes
       /\ back.TOKEN = alone.ndata.TOKEN
       /\ back.NODE = alone.ndata.NODE
       /\ back.edges = alone.edges
       /\ embedded_graph.root_indexes[k] = base + RootLocalIndex(batch[k])

\* a batch of two different trees
C10_Witness ==
  /\ Len(batch) = 2
  /\ batch[1] # batch[2]
  /\ BaseOffset(batch, 2) > 0
  /\ embedded_graph.num_nodes = batch[1].graph.num_nodes + batch[2].graph.num_nodes

(***************************************************************************)
(* C11: in the schedule of a forest the first frontier is the set of nodes *)
(* without children, a node is in a later frontier exactly when all its    *)
(* children are in earlier frontiers and one of them is in the frontier    *)
(* just before, and the root of a deepest tree is in the last frontier.    *)
(***************************************************************************)
ChildrenOf(g, v) == {g.edges[e][1] : e \in InEdges(g, v)}

FrontierOf(frontiers, v) == CHOOSE k \in 1..Len(frontiers) : v \in frontiers[k]

Scheduled(frontiers) == UNION Range(frontiers)

\* the nodes of the batched graph that head a longest chain of the batch
DeepestRoots ==
  UNION {{BaseOffset(batch, t) + i : i \in {j \in 0..(Len(batch[t].nodes) - 1) :
                  ChainBelow(batch[t].nodes, j, Len(batch[t].nodes)) = BatchDepth}} :
           t \in 1..Len(batch)}

C11_Frontiers ==
  run.scheduled /\ ~run.loop =>
    LET g == embedded_graph
        f == run.frontiers
    IN /\ f[1] = {v \in GraphNodes(g) : ChildrenOf(g, v) = {}}
       /\ \A k \in 2..Len(f) :
            f[k] = {v \in GraphNodes(g) :
                      /\ ChildrenOf(g, v) # {}
                      /\ ChildrenOf(g, v) \subseteq Scheduled(SubSeq(f, 1, k - 1))
                      /\ ChildrenOf(g, v) \cap f[k - 1] # {}}
       /\ DeepestRoots \subseteq f[Len(f)]

\* a scheduled node whose children are in two different frontiers
C11_Witness ==
  /\ run.scheduled /\ ~run.loop
  /\ \E v \in GraphNodes(embedded_graph) :
       \E c1, c2 \in ChildrenOf(embedded_graph, v) :
         FrontierOf(run.frontiers, c1) < FrontierOf(run.frontiers, c2)

(***************************************************************************)
(* C12: within a pass a node is applied once, the h and c a message reads  *)
(* from a child are those the child got when it was applied in an earlier  *)
(* frontier of the same pass, and they are the child's h and c at the end  *)
(* of the pass.                                                            *)
(***************************************************************************)
AppliedIn(p, v) == {a \in applied : a.pass = p /\ a.at.node = v}

C12_FrontierOrder ==
  /\ \A a \in applied :
       /\ Cardinality(AppliedIn(a.pass, a.at.node)) = 1
       /\ \A j \in 1..Len(a.at.children) :
            \E b \in AppliedIn(a.pass, a.at.children[j]) :
              /\ b.frontier < a.frontier
              /\ a.at.src_h[j] = b.at.h
              /\ a.at.src_c[j] = b.at.c
  /\ \A p \in 1..Len(outputs) :
       outputs[p].exc = "" =>
         \A v \in GraphNodes(embedded_graph) :
           /\ Cardinality(AppliedIn(p, v)) = 1
           /\ \A b \in AppliedIn(p, v) :
                outputs[p].h[v + 1] = b.at.h /\ outputs[p].c[v + 1] = b.at.c

\* a finished pass in which a message was read from an internal child
C12_Witness ==
  /\ outputs # <<>>
  /\ outputs[Len(outputs)].exc = ""
  /\ \E a \in applied :
       /\ a.pass = Len(outputs)
       /\ \E j \in 1..Len(a.at.children) :
            \E b \in AppliedIn(a.pass, a.at.children[j]) :
               b.at.in_degree > 0 /\ b.at.h # 0

(***************************************************************************)
(* C13: the matrix of an edge of the edge-specific cell is the one the     *)
(* table gives for the key (type of the child, type of the parent), the    *)
(* child being the source and the parent the destination of the edge.      *)
(***************************************************************************)
\* the matrix the table gives to the key (first, second): the number of the
\* last group, counted from 1 over the whole table, that has the pair; 0 if
\* no group has it
PairId(table, first, second) ==
  LET groups == FlatGroups(table)
      ids == {n \in 1..Len(groups) : /\ first \in Range(groups[n].type_ids)
                                     /\ second \in Range(groups[n].dst_group)}
  IN IF ids = {} THEN 0 ELSE SetMax(ids)

EdgeSpecificRan ==
  ForwardStarted /\ cell.variant = "EdgeSpecific" /\ run.lookup.exc = ""

ChildType(g, e) == g.ndata.type_id[g.edges[e][1] + 1]

ParentType(g, e) == g.ndata.type_id[g.edges[e][2] + 1]

C13_ChildFirst ==
  EdgeSpecificRan =>
    \A e \in 1..Len(embedded_graph.edges) :
      run.lookup.matrix_id[e] =
        PairId(cell.table, ChildType(embedded_graph, e), ParentType(embedded_graph, e))

(***************************************************************************)
(* C13, as the cell does it: the key is (type of the parent, type of the   *)
(* child), the parent being the destination and the child the source of    *)
(* the edge.                                                               *)
(***************************************************************************)
C13_ParentFirst ==
  EdgeSpecificRan =>
    \A e \in 1..Len(embedded_graph.edges) :
      run.lookup.matrix_id[e] =
        PairId(cell.table, ParentType(embedded_graph, e), ChildType(embedded_graph, e))

\* an edge whose pair is in the table one way round only
C13_Witness ==
  /\ EdgeSpecificRan
  /\ \E e \in 1..Len(embedded_graph.edges) :
       /\ PairId(cell.table, ParentType(embedded_graph, e), ChildType(embedded_graph, e)) > 0
       /\ PairId(cell.table, ChildType(embedded_graph, e), ParentType(embedded_graph, e)) = 0

(***************************************************************************)
(* C14: in the type-specific cell the matrices of the edges into a node    *)
(* depend on the type of the node and the sorted types of its children     *)
(* only: two nodes that agree on both get the same indices, and a node     *)
(* whose type and signature are in the table does not get the default 0.   *)
(***************************************************************************)
TypeSpecificRan ==
  ForwardStarted /\ cell.variant = "TypeSpecific" /\ run.lookup.exc = ""

\* the matrix indices of the edges into node, as a bag of the sorted indices
MatricesInto(g, node) ==
  Sorted([j \in 1..Len(InEdgeIds(g, node, 1)) |-> run.lookup.matrix_id[InEdgeIds(g, node, 1)[j]]])

C14_TypeSignature ==
  TypeSpecificRan =>
    LET g == embedded_graph IN
    /\ \A u, v \in GraphNodes(g) :
         /\ g.ndata.type_id[u + 1] = g.ndata.type_id[v + 1]
         /\ ChildrenSignature(g, u) = ChildrenSignature(g, v)
         => MatricesInto(g, u) = MatricesInto(g, v)
    /\ \A v \in GraphNodes(g) :
         NodeInTable(g, v) => \A j \in 1..Len(MatricesInto(g, v)) : MatricesInto(g, v)[j] # 0

(***************************************************************************)
(* C15: a document that declares an AST node id as a child more than once  *)
(* (in two children lists, or twice in one) makes the call raise; no tree  *)
(* is returned for it.                                                     *)
(***************************************************************************)
\* the places (node, position in its children list) that declare child c
Declarations(ast, c) ==
  UNION {{<<i, j>> : j \in {m \in 1..Len(ast[i].children) : ast[i].children[m] = c}} :
           i \in {n \in 1..Len(ast) : IsInternal(ast[n])}}

DeclaredTwice(ast) ==
  \E c \in 0..(Len(ast) - 1) : Cardinality(Declarations(ast, c)) > 1

C15_DeclaredTwice ==
  \A k \in CallIds :
    (Parsed(returned[k]) /\ DeclaredTwice(AstOf(returned[k])))
      => returned[k].result.outcome = "raise"

(***************************************************************************)
(* C16: the parent of the canonical node of an internal AST node is the    *)
(* one registered for its id by the nodes visited before it (the last of   *)
(* the earlier internal nodes that list it, none if there is none), so a   *)
(* node that lists its own id is not its own parent.                       *)
(***************************************************************************)
\* the walk over the document ended without an exception
WalkCompleted(call) ==
  Parsed(call) /\ call.result.exc \notin {"AssertionError", "KeyError"}

\* the internal nodes before the i-th node of the document that list it
EarlierDeclarers(ast, i) ==
  {j \in 1..(i - 1) : IsInternal(ast[j]) /\ (i - 1) \in Range(ast[j].children)}

ParentBeforeRegistration(cfg, ast, i) ==
  IF EarlierDeclarers(ast, i) = {} THEN None
  ELSE Some(CanonicalStart(cfg, ast, SetMax(EarlierDeclarers(ast, i))))

C16_ParentBeforeChildren ==
  \A k \in CallIds :
    WalkCompleted(returned[k]) =>
      LET ast == AstOf(returned[k])
          nodes == returned[k].result.nodes
      IN /\ \A i \in 1..Len(ast) :
              IsInternal(ast[i]) =>
                nodes[CanonicalStart(config, ast, i) + 1][3] =
                  ParentBeforeRegistration(config, ast, i)
         /\ \A n \in 0..(Len(nodes) - 1) : nodes[n + 1][3] # Some(n)

(***************************************************************************)
(* C17: if no internal node of the document lists its own id, every edge   *)
(* (child, parent) of the built edge list has parent < child, and the      *)
(* traversal of the built graph ends with every node in a frontier.        *)
(***************************************************************************)
SelfListed(ast) ==
  \E i \in 1..Len(ast) : IsInternal(ast[i]) /\ (i - 1) \in Range(ast[i].children)

\* the call got as far as dgl.graph((us, vs))
GraphBuilt(call) == WalkCompleted(call) /\ call.result.graph # NoGraph

C17_ParentFirstOrder ==
  \A k \in CallIds :
    (GraphBuilt(returned[k]) /\ ~SelfListed(AstOf(returned[k]))) =>
      LET g == returned[k].result.graph
          topo == TopologicalNodesGenerator(g)
      IN /\ g.edges = Edges(returned[k].result.nodes)
         /\ \A e \in 1..Len(g.edges) : g.edges[e][2] < g.edges[e][1]
         /\ ~topo.loop
         /\ Scheduled(topo.frontiers) = GraphNodes(g)
         /\ returned[k].result.exc = "DGLError" =>
              Len(returned[k].result.nodes) # g.num_nodes

\* a tree returned, after the traversal of _is_suitable_tree, for a document
\* that declares a child twice and lists a child before an earlier node
C17_Witness ==
  \E k \in CallIds :
    /\ GraphBuilt(returned[k])
    /\ ~SelfListed(AstOf(returned[k]))
    /\ DeclaredTwice(AstOf(returned[k]))
    /\ config.max_tree_depth # None
    /\ returned[k].result.outcome = "sample"
    /\ Len(returned[k].result.graph.edges) > 1

(***************************************************************************)
(* C18: every forward pass starts its propagation with h, c, Uh_sum and    *)
(* fc_sum of all nodes zero and x_iou, x_f computed from x, and the passes *)
(* over one graph with one cell return the same.                           *)
(***************************************************************************)
C18_Reinitialised ==
  /\ \A p, q \in 1..Len(outputs) : outputs[p] = outputs[q]
  /\ run.pc = "propagating" /\ run.k = 1 =>
       LET nd == embedded_graph.ndata IN
       \A i \in 1..embedded_graph.num_nodes :
         /\ nd.h[i] = 0
         /\ nd.c[i] = 0
         /\ nd.Uh_sum[i] = Zero3
         /\ nd.fc_sum[i] = 0
         /\ nd.x_iou[i] = Add3(Scale(W_iou, nd.x[i]), b_iou)
         /\ nd.x_f[i] = Mod(W_f * nd.x[i] + b_f)

\* a second pass starts on a graph on which the first pass, which returned
\* states, had left sums that are not zero
C18_Witness ==
  /\ Len(outputs) = 1
  /\ outputs[1].exc = ""
  /\ run.pc = "propagating"
  /\ run.k = 1
  /\ \E a \in applied : a.pass = 1 /\ a.at.Uh_sum # Zero3 /\ a.at.fc_sum # 0 /\ a.at.h # 0

====
